---------------------------- MODULE Spec2Model ----------------------------
(***************************************************************************)
(* The scrape-and-rank pipeline of the NC Lottery reel generators          *)
(* (src/nc_lottery_reel.py and src/nc_lottery_most_top_prizes_reel.py).    *)
(*                                                                         *)
(* Five specifications share the variables:                                *)
(*   Spec        one run of scrape_active_games followed by a ranking,     *)
(*               with every GET attempt of fetch_page a step of its own;   *)
(*   SpecRank    the two ranking functions applied to enriched game lists; *)
(*   SpecClaims  get_games_in_claims_period applied to claims listings;    *)
(*   SpecParse   a fetched listing of one table, parsed, enriched, ranked; *)
(*   SpecImage   fetch_image called for the game slides of a reel.         *)
(*                                                                         *)
(* Abstractions.  A game number and a detail-page URL are the integer in   *)
(* the link; a date cell is the day it denotes, relative to the day of the *)
(* run, or BadDate when strptime rejects it; a datetime is a number of     *)
(* ticks, TicksPerDay to the day.  A URL is the page it names and, for a   *)
(* detail page, the number in its link.  Percentages are exact integers:   *)
(* the tiers used make remaining * 100 a multiple of total, so             *)
(* remaining / total * 100 has no fractional part.                         *)
(***************************************************************************)
EXTENDS Integers, Sequences, FiniteSets

VARIABLES
    pc,               \* position of the run
    games_in_claims,  \* self.games_in_claims
    processed_games,  \* processed_games of scrape_active_games
    games,            \* games of scrape_active_games (its return value)
    game_data,        \* the parsed game being enriched, <<>> when none
    seenLinks,        \* history: the link number of each visited table
    src,              \* history: src[i] is the table index games[i] came from
    attempts,         \* outcomes of the GET attempts of the current fetch_page
    fetched,          \* fetch_page: idle, pending, backoff, text, none
    results,          \* the ranked result list
    today,            \* datetime.now() read by get_games_in_claims_period
    claims_page,      \* the rows of the games-ending listing
    calls,            \* history: the URL of each fetch_page call of the run
    waits,            \* time.sleep(self.delay * 2) calls of this fetch_page
    delays,           \* history: time.sleep(self.delay) calls of the run
    unavailable,      \* history: the URLs for which fetch_page returned None
    parsed_table,     \* history: the table handed to parse_game_section
    image_gets,       \* GET attempts of the current fetch_image call
    response,         \* fetch_image: what its GET brought
    game_img,         \* game_img of the slide being made
    slides,           \* history: one entry for each game slide made
    all_tables,       \* the tables of the listing, when fixed beforehand
    prices,           \* history: <<link, price>> of each enrichment
    img_tags,         \* the img elements of a detail page
    image_url         \* the image_url get_game_details_from_page returns

vars == <<pc, games_in_claims, processed_games, games, game_data, seenLinks,
          src, attempts, fetched, results, today, claims_page, calls, waits,
          delays, unavailable, parsed_table, image_gets, response, game_img,
          slides, all_tables, prices, img_tags, image_url>>

-----------------------------------------------------------------------------
(* Bounds of the model *)

NumGames == 2        \* game numbers are 1..NumGames
MaxTables == 3       \* tables in the prizes-remaining listing
MaxGames == 3        \* games in an enriched list handed to a ranking
MaxRows == 2         \* rows in the games-ending listing
TicksPerDay == 3     \* times of day at which a run may start
MaxTierRows == 2     \* rows below the header of a table handed to the parser
MaxSlides == 3       \* game slides of a reel
MaxImages == 2       \* img elements of a detail page
MaxReelGames == 4    \* results handed to generate_all_content
MaxScanTables == 3   \* tables of a listing fixed beforehand
MaxRunTables == 2    \* tables of the listing of a whole run

GameNumbers == 1..NumGames

-----------------------------------------------------------------------------
(* PrizeTier and GameData *)

PrizeTier(v, t, r) == [value |-> v, total |-> t, remaining |-> r]

percent_remaining(tier) ==
    IF tier.total = 0 THEN 0 ELSE (tier.remaining * 100) \div tier.total

GameData(num, url, price, tiers) ==
    [game_number |-> num, url |-> url, ticket_price |-> price,
     prize_tiers |-> tiers]

\* max(prize_tiers, key=value): the first tier of maximal value.
\* Defined for a non-empty list; the code's None is the empty-list case.
get_top_prize(game) ==
    LET ts == game.prize_tiers
        i == CHOOSE i \in DOMAIN ts :
                /\ \A j \in DOMAIN ts : ts[j].value <= ts[i].value
                /\ \A j \in 1..(i - 1) : ts[j].value < ts[i].value
    IN ts[i]

\* A faulty variant: of the tiers of minimal value the last is taken.
get_bottom_prize_last(game) ==
    LET ts == game.prize_tiers
        i == CHOOSE i \in DOMAIN ts :
                /\ \A j \in DOMAIN ts : ts[j].value >= ts[i].value
                /\ \A j \in (i + 1)..Len(ts) : ts[j].value > ts[i].value
    IN ts[i]

\* min(prize_tiers, key=value): the first tier of minimal value.
get_bottom_prize(game) ==
    LET ts == game.prize_tiers
        i == CHOOSE i \in DOMAIN ts :
                /\ \A j \in DOMAIN ts : ts[j].value >= ts[i].value
                /\ \A j \in 1..(i - 1) : ts[j].value > ts[i].value
    IN ts[i]

\* A faulty variant: the difference is taken the other way round.
calculate_differential_reversed(game) ==
    IF game.prize_tiers = <<>>
    THEN <<0, 0, 0>>
    ELSE LET top_pct == percent_remaining(get_top_prize(game))
             bottom_pct == percent_remaining(get_bottom_prize(game))
         IN <<bottom_pct, top_pct, bottom_pct - top_pct>>

\* <<bottom_pct, top_pct, differential>>
calculate_differential(game) ==
    IF game.prize_tiers = <<>>
    THEN <<0, 0, 0>>
    ELSE LET top_pct == percent_remaining(get_top_prize(game))
             bottom_pct == percent_remaining(get_bottom_prize(game))
         IN <<bottom_pct, top_pct, top_pct - bottom_pct>>

-----------------------------------------------------------------------------
(* list.sort(key=..., reverse=True) *)

Reverse(s) == [i \in 1..Len(s) |-> s[Len(s) + 1 - i]]

\* Python's tuple order on keys of equal length.
KeyLT(a, b) ==
    \E i \in 1..Len(a) : a[i] < b[i] /\ \A j \in 1..(i - 1) : a[j] = b[j]

RECURSIVE InsertAsc(_, _)
InsertAsc(s, x) ==
    IF s = <<>> THEN <<x>>
    ELSE IF KeyLT(x[1], s[Len(s)][1])
         THEN Append(InsertAsc(SubSeq(s, 1, Len(s) - 1), x), s[Len(s)])
         ELSE Append(s, x)

\* A stable ascending sort of <<key, item>> pairs by key.
RECURSIVE StableAsc(_)
StableAsc(s) ==
    IF s = <<>> THEN <<>>
    ELSE InsertAsc(StableAsc(SubSeq(s, 1, Len(s) - 1)), s[Len(s)])

\* A faulty variant: sort ascending, then reverse (equal keys end up swapped).
sort_reverse_unstable(keyed) == Reverse(StableAsc(keyed))

\* list.sort(reverse=True) on <<key, item>> pairs: the list is reversed,
\* sorted ascending by a stable sort, and reversed again.
sort_reverse(keyed) == Reverse(StableAsc(Reverse(keyed)))

Items(keyed) == [i \in 1..Len(keyed) |-> keyed[i][2]]

-----------------------------------------------------------------------------
(* The two rankings *)

MIN_TOP_PRIZE == 5000

\* A result tuple (game, bottom_pct, top_pct, differential).
ResultOf(game) ==
    LET d == calculate_differential(game) IN <<game, d[1], d[2], d[3]>>

\* A faulty variant: the ranking drops games of non-positive differential.
analyze_and_rank_games_filtering(gs) ==
    LET rs == SelectSeq([i \in 1..Len(gs) |-> ResultOf(gs[i])],
                        LAMBDA x : x[4] > 0)
    IN Items(sort_reverse([i \in 1..Len(rs) |-> <<(<<rs[i][4]>>), rs[i]>>]))

\* A faulty variant: an empty game list is answered with a placeholder entry.
analyze_and_rank_games_placeholder(gs) ==
    IF gs = <<>>
    THEN <<ResultOf(GameData(0, 0, 0, <<>>))>>
    ELSE LET rs == [i \in 1..Len(gs) |-> ResultOf(gs[i])]
         IN Items(sort_reverse(
                [i \in 1..Len(rs) |-> <<(<<rs[i][4]>>), rs[i]>>]))

\* nc_lottery_reel.py: sort descending by differential.
analyze_and_rank_games(gs) ==
    LET rs == [i \in 1..Len(gs) |-> ResultOf(gs[i])]
    IN Items(sort_reverse([i \in 1..Len(rs) |-> <<(<<rs[i][4]>>), rs[i]>>]))

\* A faulty variant: the threshold test is strict.
QualifiesTopPrizeStrict(game) ==
    game.prize_tiers # <<>> /\ get_top_prize(game).value > MIN_TOP_PRIZE

\* if top_prize and top_prize.value >= MIN_TOP_PRIZE
QualifiesTopPrize(game) ==
    game.prize_tiers # <<>> /\ get_top_prize(game).value >= MIN_TOP_PRIZE

\* A faulty variant: the sort key is the top prize remaining alone.
analyze_and_rank_by_top_prizes_no_tiebreak(gs) ==
    LET rs == [i \in 1..Len(SelectSeq(gs, QualifiesTopPrize)) |->
                  ResultOf(SelectSeq(gs, QualifiesTopPrize)[i])]
    IN Items(sort_reverse(
           [i \in 1..Len(rs) |->
               <<(<<get_top_prize(rs[i][1]).remaining>>), rs[i]>>]))

\* nc_lottery_most_top_prizes_reel.py: filter on the top prize, then sort
\* descending by (top prize remaining, differential).
analyze_and_rank_by_top_prizes(gs) ==
    LET rs == [i \in 1..Len(SelectSeq(gs, QualifiesTopPrize)) |->
                  ResultOf(SelectSeq(gs, QualifiesTopPrize)[i])]
    IN Items(sort_reverse(
           [i \in 1..Len(rs) |->
               <<(<<get_top_prize(rs[i][1]).remaining, rs[i][4]>>), rs[i]>>]))

-----------------------------------------------------------------------------
(* fetch_page *)

\* A faulty variant: one attempt too many.
max_retries_plus_one == 3 + 1

\* A faulty variant: the sleep follows the last failed attempt too.
backoff_after_every_failure(attempt) == attempt >= 0

\* max_retries = 3
max_retries == 3

\* if attempt < max_retries - 1, for the 0-based attempt that failed
backoff_after(attempt) == attempt < max_retries - 1

\* The URLs of the run.
GAMES_ENDING_URL == [page |-> "scratch-off-games-ending", link |-> 0]
PRIZES_URL == [page |-> "scratch-off-prizes-remaining", link |-> 0]
DetailUrl(link) == [page |-> "detail", link |-> link]

\* The table variable before any table is parsed.
NoTable == <<>>

\* image_url = ""
NoImageUrl == <<>>

\* Entering fetch_page(url): no attempt made yet, no sleep made yet.
FetchStart(url) ==
    /\ attempts' = <<>>
    /\ fetched' = "pending"
    /\ calls' = Append(calls, url)
    /\ waits' = 0

\* session.get and raise_for_status succeed: return response.text.
GetOk ==
    /\ pc \in {"claims_fetch", "listing_fetch", "detail_fetch"}
    /\ fetched = "pending"
    /\ Len(attempts) < max_retries
    /\ attempts' = Append(attempts, TRUE)
    /\ fetched' = "text"
    /\ UNCHANGED <<pc, games_in_claims, processed_games, games, game_data,
                   seenLinks, src, results, today, claims_page>>
    /\ UNCHANGED <<calls, waits, delays, unavailable,
                   parsed_table, image_gets, response, game_img, slides>>
    /\ UNCHANGED <<all_tables, prices, img_tags, image_url>>

\* A faulty variant: a failed attempt is not counted, the loop retries
\* until a GET succeeds.
GetFail_uncounted ==
    /\ pc \in {"claims_fetch", "listing_fetch", "detail_fetch"}
    /\ fetched = "pending"
    /\ Len(attempts) < max_retries
    /\ fetched' = "backoff"
    /\ UNCHANGED <<pc, games_in_claims, processed_games, games, game_data,
                   seenLinks, src, attempts, results, today, claims_page>>
    /\ UNCHANGED <<calls, waits, delays, unavailable, parsed_table,
                   image_gets, response, game_img, slides>>
    /\ UNCHANGED <<all_tables, prices, img_tags, image_url>>

\* session.get or raise_for_status raises RequestException: sleep before
\* the next attempt if there is one, else fall out of the loop.
GetFail ==
    /\ pc \in {"claims_fetch", "listing_fetch", "detail_fetch"}
    /\ fetched = "pending"
    /\ Len(attempts) < max_retries
    /\ attempts' = Append(attempts, FALSE)
    /\ IF backoff_after(Len(attempts))
       THEN fetched' = "backoff" /\ waits' = waits + 1
       ELSE fetched' = "none" /\ UNCHANGED waits
    /\ UNCHANGED <<pc, games_in_claims, processed_games, games, game_data,
                   seenLinks, src, results, today, claims_page>>
    /\ UNCHANGED <<calls, delays, unavailable, parsed_table,
                   image_gets, response, game_img, slides>>
    /\ UNCHANGED <<all_tables, prices, img_tags, image_url>>

\* time.sleep(self.delay * 2) ends: the loop goes on if attempts are left.
Backoff ==
    /\ fetched = "backoff"
    /\ fetched' = IF Len(attempts) < max_retries THEN "pending" ELSE "none"
    /\ UNCHANGED <<pc, games_in_claims, processed_games, games, game_data,
                   seenLinks, src, attempts, results, today, claims_page>>
    /\ UNCHANGED <<calls, waits, delays, unavailable,
                   parsed_table, image_gets, response, game_img, slides>>
    /\ UNCHANGED <<all_tables, prices, img_tags, image_url>>

-----------------------------------------------------------------------------
(* get_games_in_claims_period *)

\* A date cell: text in the format '%b %d, %Y' naming a day, or other text.
DateCell(d) == [ok |-> TRUE, day |-> d]
BadDate == [ok |-> FALSE, day |-> 0]
DateCells == {BadDate} \cup {DateCell(d) : d \in {-1, 0, 5}}

\* datetime.strptime(text, '%b %d, %Y'): midnight of the day.
strptime(cell) == cell.day * TicksPerDay

ClaimNumbers == {1, 2}

\* A row of the games-ending listing: its number of cells, cells[0],
\* cells[3] and cells[4].
ClaimRows ==
    [ncells : {5}, game_num : ClaimNumbers, end_date : DateCells,
     claim_date : DateCells]
        \cup {[ncells |-> 4, game_num |-> 1, end_date |-> DateCell(-1),
               claim_date |-> DateCell(5)]}

ClaimsPages ==
    UNION {[1..n -> ClaimRows] : n \in 0..MaxRows}

\* A faulty variant: the claim deadline is not compared.
adds_to_claims_no_deadline(row, now) ==
    /\ row.ncells >= 5
    /\ row.end_date.ok /\ row.claim_date.ok
    /\ strptime(row.end_date) < now

\* The body of the row loop: the row adds its game number.
adds_to_claims(row, now) ==
    /\ row.ncells >= 5
    /\ row.end_date.ok /\ row.claim_date.ok
    /\ strptime(row.end_date) < now /\ now <= strptime(row.claim_date)

\* The set built from a fetched page; now is datetime.now().
get_games_in_claims_period(rows, now) ==
    {rows[i].game_num : i \in {j \in DOMAIN rows : adds_to_claims(rows[j], now)}}

\* The run starts on day 0 at any tick of the day.
Times == 0..(TicksPerDay - 1)

-----------------------------------------------------------------------------
(* parse_game_section *)

\* A numeric cell: text that float()/int() accepts as n, or other text.
NumCell(n) == [ok |-> TRUE, n |-> n]
BadNum == [ok |-> FALSE, n |-> 0]

\* float(cleaned), 0.0 on ValueError
parse_prize_value(cell) == IF cell.ok THEN cell.n ELSE 0

\* int(cleaned), 0 on ValueError
parse_number(cell) == IF cell.ok THEN cell.n ELSE 0

\* A row below the header: its number of cells, whether cells[0] starts
\* with '$', and the numeric content of cells[0], cells[2] and cells[3].
TierRow(nc, dollar, v, t, r) ==
    [ncells |-> nc, dollar |-> dollar, value |-> v, total |-> t,
     remaining |-> r]

\* A faulty variant: the total is not tested before the tier is appended.
row_tiers_total_unchecked(row) ==
    IF row.ncells < 4 THEN <<>>
    ELSE IF ~row.dollar THEN <<>>
    ELSE IF parse_prize_value(row.value) <= 0 THEN <<>>
    ELSE <<PrizeTier(parse_prize_value(row.value),
                     parse_number(row.total),
                     parse_number(row.remaining))>>

\* One iteration of the row loop: the tiers (none or one) the row appends.
row_tiers(row) ==
    IF row.ncells < 4 THEN <<>>
    ELSE IF ~row.dollar THEN <<>>
    ELSE IF parse_prize_value(row.value) <= 0 THEN <<>>
    ELSE IF parse_number(row.total) > 0
         THEN <<PrizeTier(parse_prize_value(row.value),
                          parse_number(row.total),
                          parse_number(row.remaining))>>
         ELSE <<>>

RECURSIVE parse_rows(_)
parse_rows(rows) ==
    IF rows = <<>> THEN <<>>
    ELSE row_tiers(rows[1]) \o parse_rows(SubSeq(rows, 2, Len(rows)))

\* A table of the listing: link is the number in the first detail-page
\* link of the table (0: no such link), header_link tells whether that link
\* is in the first row, label is the number of a 'Game Number:' label in
\* the first row (0: none), rows are the rows below the first.
Table(link, header_link, label, rows) ==
    [link |-> link, header_link |-> header_link, label |-> label,
     rows |-> rows]

\* A faulty variant: a table without tiers still gives a game.
parse_game_section_keeping_empty(table) ==
    IF 1 + Len(table.rows) < 2 THEN <<>>
    ELSE IF ~table.header_link THEN <<>>
    ELSE <<GameData(IF table.label # 0 THEN table.label ELSE table.link,
                    table.link, 0, parse_rows(table.rows))>>

\* None is <<>>, a game is <<game>>.
parse_game_section(table) ==
    IF 1 + Len(table.rows) < 2 THEN <<>>
    ELSE IF ~table.header_link THEN <<>>
    ELSE IF parse_rows(table.rows) = <<>> THEN <<>>
    ELSE <<GameData(IF table.label # 0 THEN table.label ELSE table.link,
                    table.link, 0, parse_rows(table.rows))>>

-----------------------------------------------------------------------------
(* scrape_active_games (Spec) *)

ArtifactRow == TierRow(4, FALSE, BadNum, BadNum, BadNum)
TopRow == TierRow(4, TRUE, NumCell(5000), NumCell(2), NumCell(1))
LowRow == TierRow(4, TRUE, NumCell(100), NumCell(4), NumCell(3))

ListingRowLists ==
    { <<>>, <<ArtifactRow>>, <<ArtifactRow, TopRow, LowRow>>, <<LowRow>> }

\* A 'Game Number:' label is absent (0) or names game 1.
Labels == {0, 1}

Tables ==
    {Table(0, FALSE, 0, <<>>)}
        \cup {Table(l, h, lab, rows) : l \in GameNumbers, h \in BOOLEAN,
                                       lab \in Labels,
                                       rows \in ListingRowLists}

\* The price a detail page yields: 0 when neither pattern matches.
DetailPrices == {0, 5}

Init ==
    /\ pc = "start"
    /\ games_in_claims = {}
    /\ processed_games = {}
    /\ games = <<>>
    /\ game_data = <<>>
    /\ seenLinks = <<>>
    /\ src = <<>>
    /\ attempts = <<>>
    /\ fetched = "idle"
    /\ results = <<>>
    /\ today = 0
    /\ claims_page = <<>>
    /\ calls = <<>>
    /\ waits = 0
    /\ delays = 0
    /\ unavailable = {}
    /\ parsed_table = NoTable
    /\ image_gets = 0
    /\ response = "unset"
    /\ game_img = "unset"
    /\ slides = <<>>
    /\ all_tables = <<>>
    /\ prices = {}
    /\ img_tags = <<>>
    /\ image_url = NoImageUrl

\* scrape_active_games calls get_games_in_claims_period, which fetches the
\* games-ending listing.
BeginRun ==
    /\ pc = "start"
    /\ pc' = "claims_fetch"
    /\ FetchStart(GAMES_ENDING_URL)
    /\ UNCHANGED <<games_in_claims, processed_games, games, game_data,
                   seenLinks, src, results, today, claims_page>>
    /\ UNCHANGED <<delays, unavailable, parsed_table,
                   image_gets, response, game_img, slides>>
    /\ UNCHANGED <<all_tables, prices, img_tags, image_url>>

\* The games-ending listing arrived: build the set, then fetch the
\* prizes-remaining listing.
ClaimsFetched ==
    /\ pc = "claims_fetch"
    /\ fetched = "text"
    /\ \E rows \in ClaimsPages, now \in Times :
          games_in_claims' = get_games_in_claims_period(rows, now)
    /\ pc' = "listing_fetch"
    /\ FetchStart(PRIZES_URL)
    /\ UNCHANGED <<processed_games, games, game_data, seenLinks, src, results,
                   today, claims_page>>
    /\ UNCHANGED <<delays, unavailable, parsed_table,
                   image_gets, response, game_img, slides>>
    /\ UNCHANGED <<all_tables, prices, img_tags, image_url>>

\* if not html: return set()
ClaimsUnavailable ==
    /\ pc = "claims_fetch"
    /\ fetched = "none"
    /\ unavailable' = unavailable \cup {GAMES_ENDING_URL}
    /\ games_in_claims' = {}
    /\ pc' = "listing_fetch"
    /\ FetchStart(PRIZES_URL)
    /\ UNCHANGED <<processed_games, games, game_data, seenLinks, src, results,
                   today, claims_page>>
    /\ UNCHANGED <<delays, parsed_table, image_gets, response, game_img,
                   slides>>
    /\ UNCHANGED <<all_tables, prices, img_tags, image_url>>

\* if not html: return []
ListingUnavailable ==
    /\ pc = "listing_fetch"
    /\ fetched = "none"
    /\ unavailable' = unavailable \cup {PRIZES_URL}
    /\ pc' = "scraped"
    /\ UNCHANGED <<games_in_claims, processed_games, games, game_data,
                   seenLinks, src, attempts, fetched, results, today,
                   claims_page>>
    /\ UNCHANGED <<calls, waits, delays, parsed_table,
                   image_gets, response, game_img, slides>>
    /\ UNCHANGED <<all_tables, prices, img_tags, image_url>>

\* The listing arrived: games = [], processed_games = set().
ListingFetched ==
    /\ pc = "listing_fetch"
    /\ fetched = "text"
    /\ games' = <<>>
    /\ processed_games' = {}
    /\ pc' = "scan"
    /\ UNCHANGED <<games_in_claims, game_data, seenLinks, src, attempts,
                   fetched, results, today, claims_page>>
    /\ UNCHANGED <<calls, waits, delays, unavailable,
                   parsed_table, image_gets, response, game_img, slides>>
    /\ UNCHANGED <<all_tables, prices, img_tags, image_url>>

\* The next table has no detail-page link: continue.
TableNoLink ==
    /\ pc = "scan"
    /\ Len(seenLinks) < MaxTables
    /\ \E t \in Tables :
          /\ t.link = 0
          /\ seenLinks' = Append(seenLinks, t.link)
    /\ UNCHANGED <<pc, games_in_claims, processed_games, games, game_data,
                   src, attempts, fetched, results, today, claims_page>>
    /\ UNCHANGED <<calls, waits, delays, unavailable,
                   parsed_table, image_gets, response, game_img, slides>>
    /\ UNCHANGED <<all_tables, prices, img_tags, image_url>>

\* if game_number in processed_games: continue
TableDuplicate ==
    /\ pc = "scan"
    /\ Len(seenLinks) < MaxTables
    /\ \E t \in Tables :
          /\ t.link # 0
          /\ t.link \in processed_games
          /\ seenLinks' = Append(seenLinks, t.link)
    /\ UNCHANGED <<pc, games_in_claims, processed_games, games, game_data,
                   src, attempts, fetched, results, today, claims_page>>
    /\ UNCHANGED <<calls, waits, delays, unavailable,
                   parsed_table, image_gets, response, game_img, slides>>
    /\ UNCHANGED <<all_tables, prices, img_tags, image_url>>

\* if game_number in self.games_in_claims: mark it processed and continue
TableInClaims ==
    /\ pc = "scan"
    /\ Len(seenLinks) < MaxTables
    /\ \E t \in Tables :
          /\ t.link # 0
          /\ t.link \notin processed_games
          /\ t.link \in games_in_claims
          /\ processed_games' = processed_games \cup {t.link}
          /\ seenLinks' = Append(seenLinks, t.link)
    /\ UNCHANGED <<pc, games_in_claims, games, game_data, src, attempts,
                   fetched, results, today, claims_page>>
    /\ UNCHANGED <<calls, waits, delays, unavailable,
                   parsed_table, image_gets, response, game_img, slides>>
    /\ UNCHANGED <<all_tables, prices, img_tags, image_url>>

\* parse_game_section returns None: nothing is marked.
TableUnparsed ==
    /\ pc = "scan"
    /\ Len(seenLinks) < MaxTables
    /\ \E t \in Tables :
          /\ t.link # 0
          /\ t.link \notin processed_games
          /\ t.link \notin games_in_claims
          /\ parse_game_section(t) = <<>>
          /\ seenLinks' = Append(seenLinks, t.link)
    /\ UNCHANGED <<pc, games_in_claims, processed_games, games, game_data,
                   src, attempts, fetched, results, today, claims_page>>
    /\ UNCHANGED <<calls, waits, delays, unavailable,
                   parsed_table, image_gets, response, game_img, slides>>
    /\ UNCHANGED <<all_tables, prices, img_tags, image_url>>

\* A faulty variant: the link number of a parsed table is not marked.
TableParsed_unmarked ==
    /\ pc = "scan"
    /\ Len(seenLinks) < MaxTables
    /\ \E t \in Tables :
          /\ t.link # 0
          /\ t.link \notin processed_games
          /\ t.link \notin games_in_claims
          /\ parse_game_section(t) # <<>>
          /\ game_data' = parse_game_section(t)
          /\ seenLinks' = Append(seenLinks, t.link)
    /\ pc' = "detail_delay"
    /\ UNCHANGED <<games_in_claims, processed_games, games, src, attempts,
                   fetched, results, today, claims_page>>
    /\ UNCHANGED <<calls, waits, delays, unavailable,
                   parsed_table, image_gets, response, game_img, slides>>
    /\ UNCHANGED <<all_tables, prices, img_tags, image_url>>

\* A faulty variant: a table is parsed and enriched without a look at the
\* claims exclusion set.
TableParsed_claims_unchecked ==
    /\ pc = "scan"
    /\ Len(seenLinks) < MaxTables
    /\ \E t \in Tables :
          /\ t.link # 0
          /\ t.link \notin processed_games
          /\ parse_game_section(t) # <<>>
          /\ game_data' = parse_game_section(t)
          /\ processed_games' = processed_games \cup {t.link}
          /\ seenLinks' = Append(seenLinks, t.link)
    /\ pc' = "detail_delay"
    /\ UNCHANGED <<games_in_claims, games, src, attempts, fetched, results,
                   today, claims_page>>
    /\ UNCHANGED <<calls, waits, delays, unavailable,
                   parsed_table, image_gets, response, game_img, slides>>
    /\ UNCHANGED <<all_tables, prices, img_tags, image_url>>

\* parse_game_section returns a game: mark the link number processed and
\* call get_game_details_from_page, which first sleeps.
TableParsed ==
    /\ pc = "scan"
    /\ Len(seenLinks) < MaxTables
    /\ \E t \in Tables :
          /\ t.link # 0
          /\ t.link \notin processed_games
          /\ t.link \notin games_in_claims
          /\ parse_game_section(t) # <<>>
          /\ game_data' = parse_game_section(t)
          /\ processed_games' = processed_games \cup {t.link}
          /\ seenLinks' = Append(seenLinks, t.link)
    /\ pc' = "detail_delay"
    /\ UNCHANGED <<games_in_claims, games, src, attempts, fetched, results,
                   today, claims_page>>
    /\ UNCHANGED <<calls, waits, delays, unavailable,
                   parsed_table, image_gets, response, game_img, slides>>
    /\ UNCHANGED <<all_tables, prices, img_tags, image_url>>

\* A faulty variant: the detail page is fetched without the sleep.
DetailDelay_no_sleep ==
    /\ pc = "detail_delay"
    /\ pc' = "detail_fetch"
    /\ FetchStart(DetailUrl(game_data[1].url))
    /\ UNCHANGED <<games_in_claims, processed_games, games, game_data,
                   seenLinks, src, results, today, claims_page>>
    /\ UNCHANGED <<delays, unavailable, parsed_table, image_gets, response,
                   game_img, slides>>
    /\ UNCHANGED <<all_tables, prices, img_tags, image_url>>

\* time.sleep(self.delay) ends: fetch the detail page.
DetailDelay ==
    /\ pc = "detail_delay"
    /\ delays' = delays + 1
    /\ pc' = "detail_fetch"
    /\ FetchStart(DetailUrl(game_data[1].url))
    /\ UNCHANGED <<games_in_claims, processed_games, games, game_data,
                   seenLinks, src, results, today, claims_page>>
    /\ UNCHANGED <<unavailable, parsed_table, image_gets, response, game_img,
                   slides>>
    /\ UNCHANGED <<all_tables, prices, img_tags, image_url>>

\* A faulty variant: a detail page that cannot be fetched ends the scan.
DetailUnavailable_ending_scan ==
    /\ pc = "detail_fetch"
    /\ fetched = "none"
    /\ prices' = prices \cup {<<game_data[1].url, 0>>}
    /\ unavailable' = unavailable \cup {DetailUrl(game_data[1].url)}
    /\ game_data' = <<>>
    /\ pc' = "scraped"
    /\ UNCHANGED <<games_in_claims, processed_games, games, seenLinks, src,
                   attempts, fetched, results, today, claims_page>>
    /\ UNCHANGED <<calls, waits, delays, parsed_table,
                   image_gets, response, game_img, slides>>
    /\ UNCHANGED <<all_tables, img_tags, image_url>>

\* if not html: return 0.0, "" -- the game is not appended.
DetailUnavailable ==
    /\ pc = "detail_fetch"
    /\ fetched = "none"
    /\ prices' = prices \cup {<<game_data[1].url, 0>>}
    /\ unavailable' = unavailable \cup {DetailUrl(game_data[1].url)}
    /\ game_data' = <<>>
    /\ pc' = "scan"
    /\ UNCHANGED <<games_in_claims, processed_games, games, seenLinks, src,
                   attempts, fetched, results, today, claims_page>>
    /\ UNCHANGED <<calls, waits, delays, parsed_table,
                   image_gets, response, game_img, slides>>
    /\ UNCHANGED <<all_tables, img_tags, image_url>>

\* A faulty variant: the game is appended whatever the price.
DetailFetched_unfiltered ==
    /\ pc = "detail_fetch"
    /\ fetched = "text"
    /\ \E price \in DetailPrices :
          /\ prices' = prices \cup {<<game_data[1].url, price>>}
          /\ games' = Append(games,
                             [game_data[1] EXCEPT !.ticket_price = price])
          /\ src' = Append(src, Len(seenLinks))
    /\ game_data' = <<>>
    /\ pc' = "scan"
    /\ UNCHANGED <<games_in_claims, processed_games, seenLinks, attempts,
                   fetched, results, today, claims_page>>
    /\ UNCHANGED <<calls, waits, delays, unavailable,
                   parsed_table, image_gets, response, game_img, slides>>
    /\ UNCHANGED <<all_tables, img_tags, image_url>>

\* The detail page arrived: set the price; append the game if price > 0.
DetailFetched ==
    /\ pc = "detail_fetch"
    /\ fetched = "text"
    /\ \E price \in DetailPrices :
          /\ prices' = prices \cup {<<game_data[1].url, price>>}
          /\ IF price > 0
             THEN /\ games' = Append(games,
                                     [game_data[1] EXCEPT !.ticket_price = price])
                  /\ src' = Append(src, Len(seenLinks))
             ELSE UNCHANGED <<games, src>>
    /\ game_data' = <<>>
    /\ pc' = "scan"
    /\ UNCHANGED <<games_in_claims, processed_games, seenLinks, attempts,
                   fetched, results, today, claims_page>>
    /\ UNCHANGED <<calls, waits, delays, unavailable,
                   parsed_table, image_gets, response, game_img, slides>>
    /\ UNCHANGED <<all_tables, img_tags, image_url>>

\* The table loop is over: return games.
ScanEnd ==
    /\ pc = "scan"
    /\ pc' = "scraped"
    /\ UNCHANGED <<games_in_claims, processed_games, games, game_data,
                   seenLinks, src, attempts, fetched, results, today,
                   claims_page>>
    /\ UNCHANGED <<calls, waits, delays, unavailable,
                   parsed_table, image_gets, response, game_img, slides>>
    /\ UNCHANGED <<all_tables, prices, img_tags, image_url>>


-----------------------------------------------------------------------------
(* get_games_in_claims_period on its own (SpecClaims) *)

\* The call has been made and fetch_page entered.
InitClaims ==
    /\ pc = "claims_fetch"
    /\ games_in_claims = {}
    /\ processed_games = {}
    /\ games = <<>>
    /\ game_data = <<>>
    /\ seenLinks = <<>>
    /\ src = <<>>
    /\ attempts = <<>>
    /\ fetched = "pending"
    /\ results = <<>>
    /\ today = 0
    /\ claims_page = <<>>
    /\ calls = <<GAMES_ENDING_URL>>
    /\ waits = 0
    /\ delays = 0
    /\ unavailable = {}
    /\ parsed_table = NoTable
    /\ image_gets = 0
    /\ response = "unset"
    /\ game_img = "unset"
    /\ slides = <<>>
    /\ all_tables = <<>>
    /\ prices = {}
    /\ img_tags = <<>>
    /\ image_url = NoImageUrl

\* The page arrived: the function reads the clock and returns the set.  The
\* page and the clock are kept for the claims on the returned set.
ClaimsPeriod ==
    /\ pc = "claims_fetch"
    /\ fetched = "text"
    /\ \E rows \in ClaimsPages, now \in Times :
          /\ claims_page' = rows
          /\ today' = now
          /\ games_in_claims' = get_games_in_claims_period(rows, now)
    /\ pc' = "claims_returned"
    /\ UNCHANGED <<processed_games, games, game_data, seenLinks, src, attempts,
                   fetched, results>>
    /\ UNCHANGED <<calls, waits, delays, unavailable,
                   parsed_table, image_gets, response, game_img, slides>>
    /\ UNCHANGED <<all_tables, prices, img_tags, image_url>>

\* if not html: return set()
ClaimsPeriodUnavailable ==
    /\ pc = "claims_fetch"
    /\ fetched = "none"
    /\ unavailable' = unavailable \cup {GAMES_ENDING_URL}
    /\ games_in_claims' = {}
    /\ pc' = "claims_returned"
    /\ UNCHANGED <<processed_games, games, game_data, seenLinks, src, attempts,
                   fetched, results, today, claims_page>>
    /\ UNCHANGED <<calls, waits, delays, parsed_table,
                   image_gets, response, game_img, slides>>
    /\ UNCHANGED <<all_tables, prices, img_tags, image_url>>

NextClaims ==
    \/ GetOk
    \/ GetFail
    \/ Backoff
    \/ ClaimsPeriod
    \/ ClaimsPeriodUnavailable

SpecClaims == InitClaims /\ [][NextClaims]_vars

-----------------------------------------------------------------------------
(* Ranking an enriched game list (SpecRank) *)

\* Top tiers on either side of the threshold, with 50 or 100 percent left.
RankTopTiers ==
    { PrizeTier(v, 2, r) : v \in {4999, 5000, 6000}, r \in {1, 2} }

\* A low tier with 75 percent left.
RankLowTier == PrizeTier(100, 4, 3)

\* Games of two tiers of one value and different percentages left.
RankEqualValueLists ==
    { <<PrizeTier(5000, 2, 1), PrizeTier(5000, 2, 2)>>,
      <<RankLowTier, PrizeTier(100, 4, 1)>> }

RankTierLists ==
    { <<t>> : t \in RankTopTiers }
        \cup { <<t, RankLowTier>> : t \in RankTopTiers }
        \cup { <<RankLowTier, t>> : t \in RankTopTiers }
        \cup RankEqualValueLists

\* scrape_active_games returns games of distinct links with a confirmed
\* price; the i-th game of the list is given link i.
AddGame ==
    /\ pc = "scraped"
    /\ Len(games) < MaxGames
    /\ \E tl \in RankTierLists :
          games' = Append(games,
                          GameData(Len(games) + 1, Len(games) + 1, 5, tl))
    /\ UNCHANGED <<pc, games_in_claims, processed_games, game_data,
                   seenLinks, src, attempts, fetched, results, today,
                   claims_page>>
    /\ UNCHANGED <<calls, waits, delays, unavailable,
                   parsed_table, image_gets, response, game_img, slides>>
    /\ UNCHANGED <<all_tables, prices, img_tags, image_url>>

\* analyze_and_rank_games, after scrape_active_games has returned.
RankDifferential ==
    /\ pc = "scraped"
    /\ results' = analyze_and_rank_games(games)
    /\ pc' = "ranked_differential"
    /\ UNCHANGED <<games_in_claims, processed_games, games, game_data,
                   seenLinks, src, attempts, fetched, today,
                   claims_page>>
    /\ UNCHANGED <<calls, waits, delays, unavailable,
                   parsed_table, image_gets, response, game_img, slides>>
    /\ UNCHANGED <<all_tables, prices, img_tags, image_url>>

\* analyze_and_rank_by_top_prizes, after scrape_active_games has returned.
RankTopPrizes ==
    /\ pc = "scraped"
    /\ results' = analyze_and_rank_by_top_prizes(games)
    /\ pc' = "ranked_top_prizes"
    /\ UNCHANGED <<games_in_claims, processed_games, games, game_data,
                   seenLinks, src, attempts, fetched, today,
                   claims_page>>
    /\ UNCHANGED <<calls, waits, delays, unavailable,
                   parsed_table, image_gets, response, game_img, slides>>
    /\ UNCHANGED <<all_tables, prices, img_tags, image_url>>

InitRank ==
    /\ pc = "scraped"
    /\ games_in_claims = {}
    /\ processed_games = {}
    /\ games = <<>>
    /\ game_data = <<>>
    /\ seenLinks = <<>>
    /\ src = <<>>
    /\ attempts = <<>>
    /\ fetched = "idle"
    /\ results = <<>>
    /\ today = 0
    /\ claims_page = <<>>
    /\ calls = <<>>
    /\ waits = 0
    /\ delays = 0
    /\ unavailable = {}
    /\ parsed_table = NoTable
    /\ image_gets = 0
    /\ response = "unset"
    /\ game_img = "unset"
    /\ slides = <<>>
    /\ all_tables = <<>>
    /\ prices = {}
    /\ img_tags = <<>>
    /\ image_url = NoImageUrl

NextRank == AddGame \/ RankDifferential \/ RankTopPrizes

SpecRank == InitRank /\ [][NextRank]_vars

\* One run of a reel generator: scrape, then rank by either policy.
Next ==
    \/ BeginRun
    \/ GetOk
    \/ GetFail
    \/ Backoff
    \/ ClaimsFetched
    \/ ClaimsUnavailable
    \/ ListingUnavailable
    \/ ListingFetched
    \/ TableNoLink
    \/ TableDuplicate
    \/ TableInClaims
    \/ TableUnparsed
    \/ TableParsed
    \/ DetailDelay
    \/ DetailUnavailable
    \/ DetailFetched
    \/ ScanEnd
    \/ RankDifferential
    \/ RankTopPrizes

Spec == Init /\ [][Next]_vars

-----------------------------------------------------------------------------
(* A listing of one table: parse, enrich, rank (SpecParse) *)

\* The rows of the scenario of two tiers.
ScenarioTopRow == TierRow(4, TRUE, NumCell(5000), NumCell(1000), NumCell(500))
ScenarioLowRow ==
    TierRow(4, TRUE, NumCell(100), NumCell(50000), NumCell(10000))

\* Rows with a value cell, a total cell or a remaining cell that is not a
\* number, is zero, is negative or exceeds the total; a row whose first cell
\* has no '$'; a row of three cells; the scenario rows.
ParseRows ==
    {TierRow(4, TRUE, v, NumCell(4), NumCell(3)) : v \in {BadNum, NumCell(0)}}
        \cup {TierRow(4, TRUE, NumCell(v), t, NumCell(3)) :
                  v \in {100, 5000}, t \in {BadNum, NumCell(0)}}
        \cup {TierRow(4, TRUE, NumCell(v), NumCell(4), r) :
                  v \in {100, 5000},
                  r \in {BadNum, NumCell(-1), NumCell(3), NumCell(5)}}
        \cup {TierRow(4, FALSE, NumCell(100), NumCell(4), NumCell(3)),
               TierRow(3, TRUE, NumCell(100), NumCell(4), NumCell(3)),
               ScenarioTopRow, ScenarioLowRow}

\* Tables of game 1 with the link in the first row and no label.
ParseTables ==
    {Table(1, TRUE, 0, rows) :
        rows \in UNION {[1..n -> ParseRows] : n \in 0..MaxTierRows}}

\* Both listings have arrived at the first attempt, nothing is in its
\* claims period, and the table loop is about to start.
InitParse ==
    /\ pc = "scan"
    /\ games_in_claims = {}
    /\ processed_games = {}
    /\ games = <<>>
    /\ game_data = <<>>
    /\ seenLinks = <<>>
    /\ src = <<>>
    /\ attempts = <<TRUE>>
    /\ fetched = "text"
    /\ results = <<>>
    /\ today = 0
    /\ claims_page = <<>>
    /\ calls = <<GAMES_ENDING_URL, PRIZES_URL>>
    /\ waits = 0
    /\ delays = 0
    /\ unavailable = {}
    /\ parsed_table = NoTable
    /\ image_gets = 0
    /\ response = "unset"
    /\ game_img = "unset"
    /\ slides = <<>>
    /\ all_tables = <<>>
    /\ prices = {}
    /\ img_tags = <<>>
    /\ image_url = NoImageUrl

\* The only table of the listing is handed to parse_game_section; a game
\* is marked processed and enriched, None is skipped.
ParseOnlyTable ==
    /\ pc = "scan"
    /\ seenLinks = <<>>
    /\ \E t \in ParseTables :
          /\ parsed_table' = t
          /\ seenLinks' = <<t.link>>
          /\ IF parse_game_section(t) = <<>>
             THEN UNCHANGED <<pc, game_data, processed_games>>
             ELSE /\ game_data' = parse_game_section(t)
                  /\ processed_games' = processed_games \cup {t.link}
                  /\ pc' = "detail_delay"
    /\ UNCHANGED <<games_in_claims, games, src, attempts, fetched, results,
                   today, claims_page>>
    /\ UNCHANGED <<calls, waits, delays, unavailable,
                   image_gets, response, game_img, slides>>
    /\ UNCHANGED <<all_tables, prices, img_tags, image_url>>

NextParse ==
    \/ ParseOnlyTable
    \/ DetailDelay
    \/ GetOk
    \/ GetFail
    \/ Backoff
    \/ DetailUnavailable
    \/ DetailFetched
    \/ ScanEnd
    \/ RankDifferential
    \/ RankTopPrizes

SpecParse == InitParse /\ [][NextParse]_vars

-----------------------------------------------------------------------------
(* Claims on the rankings, checked under SpecRank *)

\* The position of a game in the enriched list (links are distinct there).
PosInGames(game) == CHOOSE k \in 1..Len(games) : games[k].url = game.url

\* How many result tuples carry the game.
TimesRanked(game) ==
    Cardinality({i \in 1..Len(results) : results[i][1] = game})

\* The largest tier value of a game.
MaxTierValue(game) ==
    CHOOSE v \in {game.prize_tiers[i].value : i \in DOMAIN game.prize_tiers} :
        \A i \in DOMAIN game.prize_tiers : game.prize_tiers[i].value <= v

\* C2: the differential ranking is in non-increasing order of differential,
\* and two games of equal differential keep the relative order they had in
\* the enriched game list.
C2_DifferentialStableDescending ==
    pc = "ranked_differential" =>
        /\ \A i \in 1..(Len(results) - 1) : results[i][4] >= results[i + 1][4]
        /\ \A i, j \in 1..Len(results) :
              (i < j /\ results[i][4] = results[j][4])
                  => PosInGames(results[i][1]) < PosInGames(results[j][1])

\* A ranking of three games that moved a game forward and kept a tie.
C2_Witness ==
    /\ pc = "ranked_differential"
    /\ Len(results) = 3
    /\ results[1][4] > results[2][4]
    /\ results[2][4] = results[3][4]
    /\ PosInGames(results[1][1]) = 3

\* C3: the differential ranking is a permutation of the enriched game list
\* (every game once, none added), and each tuple carries its own game's
\* (bottom_pct, top_pct, differential).
C3_DifferentialPermutation ==
    pc = "ranked_differential" =>
        /\ Len(results) = Len(games)
        /\ \A k \in 1..Len(games) : TimesRanked(games[k]) = 1
        /\ \A i \in 1..Len(results) :
              /\ \E k \in 1..Len(games) : results[i][1] = games[k]
              /\ <<results[i][2], results[i][3], results[i][4]>>
                     = calculate_differential(results[i][1])

\* A ranking that holds games of negative, zero and positive differential.
C3_Witness ==
    /\ pc = "ranked_differential"
    /\ Len(results) = 3
    /\ results[1][4] > 0
    /\ results[2][4] = 0
    /\ results[3][4] < 0
    /\ results[1][1] # games[1]

\* C4: the top-prize-count ranking holds exactly the enriched games whose
\* top-tier value is at least 5000, each once; a game below 5000 is absent.
C4_TopPrizeFilter ==
    pc = "ranked_top_prizes" =>
        /\ \A k \in 1..Len(games) :
              TimesRanked(games[k])
                  = (IF MaxTierValue(games[k]) >= 5000 THEN 1 ELSE 0)
        /\ \A i \in 1..Len(results) :
              \E k \in 1..Len(games) : results[i][1] = games[k]

\* A game of top value 4999 was dropped, one of exactly 5000 and one above
\* were kept.
C4_Witness ==
    /\ pc = "ranked_top_prizes"
    /\ \E k \in 1..Len(games) :
          MaxTierValue(games[k]) = 4999 /\ TimesRanked(games[k]) = 0
    /\ \E k \in 1..Len(games) :
          MaxTierValue(games[k]) = 5000 /\ TimesRanked(games[k]) = 1
    /\ \E k \in 1..Len(games) :
          MaxTierValue(games[k]) = 6000 /\ TimesRanked(games[k]) = 1

\* C5: in the top-prize-count ranking, of two adjacent results a before b,
\* a has more top prizes remaining, or as many and a differential at least
\* b's; when both are equal, a came before b in the enriched game list.
C5_TopPrizeOrder ==
    pc = "ranked_top_prizes" =>
        \A i \in 1..(Len(results) - 1) :
            LET a == results[i]
                b == results[i + 1]
                ra == get_top_prize(a[1]).remaining
                rb == get_top_prize(b[1]).remaining
            IN /\ ra > rb \/ (ra = rb /\ a[4] >= b[4])
               /\ (ra = rb /\ a[4] = b[4])
                      => PosInGames(a[1]) < PosInGames(b[1])

\* Three ranked games: the first two tie on the count and differ in the
\* differential, the last two tie on both keys; the sort moved a game.
C5_Witness ==
    /\ pc = "ranked_top_prizes"
    /\ Len(results) = 3
    /\ get_top_prize(results[1][1]).remaining
           = get_top_prize(results[3][1]).remaining
    /\ results[1][4] > results[2][4]
    /\ results[2][4] = results[3][4]
    /\ PosInGames(results[1][1]) = 3

-----------------------------------------------------------------------------
(* Claims on fetch_page and on the table scan, checked under Spec *)

\* C1: fetch_page makes at most 3 GET attempts; no attempt follows a
\* success, which returns the text at once; it returns None only after
\* three failed attempts.
C1_FetchPageAttempts ==
    /\ Len(attempts) <= 3
    /\ \A i \in 1..(Len(attempts) - 1) : ~attempts[i]
    /\ (attempts # <<>> /\ attempts[Len(attempts)]) <=> fetched = "text"
    /\ fetched = "none" => attempts = <<FALSE, FALSE, FALSE>>

\* A detail page that arrives at the third attempt.
C1_Witness ==
    /\ pc = "detail_fetch"
    /\ fetched = "text"
    /\ attempts = <<FALSE, FALSE, TRUE>>

\* C6: a game of the returned list comes from the first table, in document
\* order, that references its link number: no earlier table has that link.
C6_OnlyFirstTableRetained ==
    \A i \in DOMAIN games :
        \A j \in 1..(src[i] - 1) : seenLinks[j] # games[i].url

\* C7: no two games of the returned list have the same game_number.
C7_GameNumbersUnique ==
    \A i, j \in DOMAIN games :
        i # j => games[i].game_number # games[j].game_number

\* C8: no game of the ranked output has a game_number in the claims
\* exclusion set of the run.
C8_NoClaimsGameRanked ==
    pc \in {"ranked_differential", "ranked_top_prizes"} =>
        \A i \in DOMAIN results : results[i][1].game_number \notin games_in_claims

-----------------------------------------------------------------------------
(* Claims on the claims filter, checked under SpecClaims *)

\* The calendar day of a datetime.
DayOf(t) == t \div TicksPerDay

\* C9: at any time of day 0, a row ending on day -1 with claim deadline on
\* day 5 puts its game number in the set; a game number whose rows all end
\* on day 5, or all have their claim deadline on day -1, is not in the set.
C9_ClaimsScenarios ==
    (pc = "claims_returned" /\ fetched = "text") =>
        /\ \A i \in DOMAIN claims_page :
              ( /\ claims_page[i].ncells >= 5
                /\ claims_page[i].end_date = DateCell(-1)
                /\ claims_page[i].claim_date = DateCell(5) )
                  => claims_page[i].game_num \in games_in_claims
        /\ \A n \in ClaimNumbers :
              (\A i \in DOMAIN claims_page :
                   claims_page[i].game_num = n
                       => \/ claims_page[i].end_date = DateCell(5)
                          \/ claims_page[i].claim_date = DateCell(-1))
                  => n \notin games_in_claims

\* Late in the day: game 1 is in its claims period, game 2 is still on
\* sale, and the set is {1}.
C9_Witness ==
    /\ pc = "claims_returned"
    /\ fetched = "text"
    /\ today = TicksPerDay - 1
    /\ Len(claims_page) = 2
    /\ claims_page[1] = [ncells |-> 5, game_num |-> 1,
                         end_date |-> DateCell(-1), claim_date |-> DateCell(5)]
    /\ claims_page[2].game_num = 2
    /\ claims_page[2].end_date = DateCell(5)
    /\ games_in_claims = {1}

\* C10: the set holds exactly the game numbers of the rows with
\* end_date < today <= claim_date compared as calendar dates, at every time
\* of day.
C10_CalendarDateWindow ==
    (pc = "claims_returned" /\ fetched = "text") =>
        games_in_claims =
            {claims_page[i].game_num :
                i \in {j \in DOMAIN claims_page :
                          /\ claims_page[j].ncells >= 5
                          /\ claims_page[j].end_date.ok
                          /\ claims_page[j].claim_date.ok
                          /\ claims_page[j].end_date.day < DayOf(today)
                          /\ DayOf(today) <= claims_page[j].claim_date.day}}

-----------------------------------------------------------------------------
(* fetch_image, called for each game slide (SpecImage) *)

\* What the GET of fetch_image can bring with a good status: the bytes of
\* an image, or bytes Image.open rejects.
ImageBodies == {"image", "garbage"}

\* The ranking is done and the slides are about to be made.
InitImage ==
    /\ pc = "render"
    /\ games_in_claims = {}
    /\ processed_games = {}
    /\ games = <<>>
    /\ game_data = <<>>
    /\ seenLinks = <<>>
    /\ src = <<>>
    /\ attempts = <<>>
    /\ fetched = "idle"
    /\ results = <<>>
    /\ today = 0
    /\ claims_page = <<>>
    /\ calls = <<>>
    /\ waits = 0
    /\ delays = 0
    /\ unavailable = {}
    /\ parsed_table = NoTable
    /\ image_gets = 0
    /\ response = "unset"
    /\ game_img = "unset"
    /\ slides = <<>>
    /\ all_tables = <<>>
    /\ prices = {}
    /\ img_tags = <<>>
    /\ image_url = NoImageUrl

\* A slide of a game without image_url: game_img = None, fetch_image is
\* not called.
SlideWithoutImageUrl ==
    /\ pc = "render"
    /\ Len(slides) < MaxSlides
    /\ image_gets' = 0
    /\ response' = "unset"
    /\ game_img' = "None"
    /\ pc' = "compose"
    /\ UNCHANGED <<games_in_claims, processed_games, games, game_data,
                   seenLinks, src, attempts, fetched, results, today,
                   claims_page>>
    /\ UNCHANGED <<calls, waits, delays, unavailable, parsed_table, slides>>
    /\ UNCHANGED <<all_tables, prices, img_tags, image_url>>

\* A slide of a game with image_url: fetch_image is entered.
FetchImageStart ==
    /\ pc = "render"
    /\ Len(slides) < MaxSlides
    /\ image_gets' = 0
    /\ response' = "unset"
    /\ game_img' = "unset"
    /\ pc' = "image_get"
    /\ UNCHANGED <<games_in_claims, processed_games, games, game_data,
                   seenLinks, src, attempts, fetched, results, today,
                   claims_page>>
    /\ UNCHANGED <<calls, waits, delays, unavailable, parsed_table, slides>>
    /\ UNCHANGED <<all_tables, prices, img_tags, image_url>>

\* session.get and raise_for_status succeed.
ImageGetOk ==
    /\ pc = "image_get"
    /\ image_gets' = image_gets + 1
    /\ \E body \in ImageBodies : response' = body
    /\ pc' = "image_open"
    /\ UNCHANGED <<games_in_claims, processed_games, games, game_data,
                   seenLinks, src, attempts, fetched, results, today,
                   claims_page>>
    /\ UNCHANGED <<calls, waits, delays, unavailable, parsed_table, game_img,
                   slides>>
    /\ UNCHANGED <<all_tables, prices, img_tags, image_url>>

\* A faulty variant: the exception of the GET reaches the caller.
ImageGetFail_raising ==
    /\ pc = "image_get"
    /\ image_gets' = image_gets + 1
    /\ response' = "error"
    /\ pc' = "raised"
    /\ UNCHANGED <<games_in_claims, processed_games, games, game_data,
                   seenLinks, src, attempts, fetched, results, today,
                   claims_page>>
    /\ UNCHANGED <<calls, waits, delays, unavailable, parsed_table, game_img,
                   slides>>
    /\ UNCHANGED <<all_tables, prices, img_tags, image_url>>

\* session.get or raise_for_status raises: except Exception, return None.
ImageGetFail ==
    /\ pc = "image_get"
    /\ image_gets' = image_gets + 1
    /\ response' = "error"
    /\ game_img' = "None"
    /\ pc' = "compose"
    /\ UNCHANGED <<games_in_claims, processed_games, games, game_data,
                   seenLinks, src, attempts, fetched, results, today,
                   claims_page>>
    /\ UNCHANGED <<calls, waits, delays, unavailable, parsed_table, slides>>
    /\ UNCHANGED <<all_tables, prices, img_tags, image_url>>

\* Image.open returns the image.
ImageOpenOk ==
    /\ pc = "image_open"
    /\ response = "image"
    /\ game_img' = "image"
    /\ pc' = "compose"
    /\ UNCHANGED <<games_in_claims, processed_games, games, game_data,
                   seenLinks, src, attempts, fetched, results, today,
                   claims_page>>
    /\ UNCHANGED <<calls, waits, delays, unavailable, parsed_table,
                   image_gets, response, slides>>
    /\ UNCHANGED <<all_tables, prices, img_tags, image_url>>

\* Image.open raises: except Exception, return None.
ImageOpenFail ==
    /\ pc = "image_open"
    /\ response = "garbage"
    /\ game_img' = "None"
    /\ pc' = "compose"
    /\ UNCHANGED <<games_in_claims, processed_games, games, game_data,
                   seenLinks, src, attempts, fetched, results, today,
                   claims_page>>
    /\ UNCHANGED <<calls, waits, delays, unavailable, parsed_table,
                   image_gets, response, slides>>
    /\ UNCHANGED <<all_tables, prices, img_tags, image_url>>

\* The slide is drawn, with the image if game_img is one, and the loop
\* goes to the next game.
SlideComposed ==
    /\ pc = "compose"
    /\ slides' = Append(slides, [gets |-> image_gets, response |-> response,
                                 game_img |-> game_img])
    /\ pc' = "render"
    /\ UNCHANGED <<games_in_claims, processed_games, games, game_data,
                   seenLinks, src, attempts, fetched, results, today,
                   claims_page>>
    /\ UNCHANGED <<calls, waits, delays, unavailable, parsed_table,
                   image_gets, response, game_img>>
    /\ UNCHANGED <<all_tables, prices, img_tags, image_url>>

NextImage ==
    \/ SlideWithoutImageUrl
    \/ FetchImageStart
    \/ ImageGetOk
    \/ ImageGetFail
    \/ ImageOpenOk
    \/ ImageOpenFail
    \/ SlideComposed

SpecImage == InitImage /\ [][NextImage]_vars

-----------------------------------------------------------------------------
(* Claims on listing failures, prices, delays and waits, checked under Spec *)

\* The positions in calls of the fetch_page calls on detail pages.
DetailCalls == {i \in DOMAIN calls : calls[i].page = "detail"}

\* The positions in calls of the fetch_page calls on a URL.
CallsOf(url) == {i \in DOMAIN calls : calls[i] = url}

\* C11: once fetch_page has returned None for the games-ending listing or
\* for the prizes-remaining listing, the run aborts: no detail page is
\* fetched, no game is returned and the ranked result is empty.
C11_ListingFailureAborts ==
    (GAMES_ENDING_URL \in unavailable \/ PRIZES_URL \in unavailable) =>
        /\ DetailCalls = {}
        /\ games = <<>>
        /\ results = <<>>

\* C14: every game of the returned list, and of the ranked output, has
\* ticket_price > 0, and no game of the list is one whose detail page could
\* not be fetched.
C14_TicketPricePositive ==
    /\ \A i \in DOMAIN games :
          /\ games[i].ticket_price > 0
          /\ DetailUrl(games[i].url) \notin unavailable
    /\ \A i \in DOMAIN results : results[i][1].ticket_price > 0

\* Two games were enriched, the detail page of one could not be fetched,
\* and the ranking holds the other alone.
C14_Witness ==
    /\ pc = "ranked_differential"
    /\ Cardinality(DetailCalls) = 2
    /\ \E l \in GameNumbers : DetailUrl(l) \in unavailable
    /\ Len(results) = 1

\* C16: when the prizes-remaining listing was fetched and has no table, no
\* detail page is fetched, no game is returned, and each of the two
\* rankings returns the empty list.
C16_EmptyListing ==
    ( /\ pc \in {"scraped", "ranked_differential", "ranked_top_prizes"}
      /\ PRIZES_URL \notin unavailable
      /\ seenLinks = <<>> )
        => /\ DetailCalls = {}
           /\ games = <<>>
           /\ pc \in {"ranked_differential", "ranked_top_prizes"}
                 => results = <<>>

\* The listing arrived at the second attempt, had no table, and the
\* differential ranking has returned.
C16_Witness ==
    /\ pc = "ranked_differential"
    /\ calls = <<GAMES_ENDING_URL, PRIZES_URL>>
    /\ attempts = <<FALSE, TRUE>>
    /\ seenLinks = <<>>
    /\ results = <<>>

\* C18: the games-ending listing is fetched by one fetch_page call, the
\* first of the run, and the prizes-remaining listing by the second, made
\* when the first has returned; the exclusion set is not assigned again; no
\* detail page is fetched, and no delay made, for a link in the set.
C18_ClaimsSetOnceAndApplied ==
    /\ [](/\ Cardinality(CallsOf(GAMES_ENDING_URL))
                = (IF pc = "start" THEN 0 ELSE 1)
          /\ \A i \in CallsOf(GAMES_ENDING_URL) : i = 1
          /\ \A i \in CallsOf(PRIZES_URL) : i = 2
          /\ pc = "claims_fetch" => Len(calls) = 1
          /\ \A i \in DetailCalls : calls[i].link \notin games_in_claims
          /\ delays = Cardinality(DetailCalls)
          /\ pc = "detail_delay" => game_data[1].url \notin games_in_claims)
    /\ [][pc # "claims_fetch" => games_in_claims' = games_in_claims]_vars

\* A table of a game in its claims period was skipped and the table of
\* another game was enriched.
C18_Witness ==
    /\ pc = "scraped"
    /\ \E i \in DOMAIN seenLinks : seenLinks[i] \in games_in_claims
    /\ Cardinality(DetailCalls) = 1
    /\ delays = 1

\* C19: a fetch_page call has slept once after each failed attempt that
\* another attempt follows: never before the first attempt, never after a
\* success, never after the third failure, and so at most twice.
C19_BackoffOnlyBetweenAttempts ==
    /\ waits <= 2
    /\ fetched = "idle" => waits = 0
    /\ fetched \in {"pending", "backoff"} => waits = Len(attempts)
    /\ fetched = "backoff" =>
          Len(attempts) \in 1..2 /\ ~attempts[Len(attempts)]
    /\ fetched = "text" => waits = Len(attempts) - 1
    /\ fetched = "none" => waits = 2

\* The prizes-remaining listing failed three times: two sleeps were made.
C19_Witness ==
    /\ pc = "listing_fetch"
    /\ fetched = "none"
    /\ attempts = <<FALSE, FALSE, FALSE>>
    /\ waits = 2

\* C20: the run has made as many delay sleeps as detail-page fetch_page
\* calls, whatever the attempts and backoff sleeps of these calls; none is
\* made before the table loop, where the two listings are fetched.
C20_OneDelayPerDetailFetch ==
    /\ delays = Cardinality(DetailCalls)
    /\ pc \in {"start", "claims_fetch", "listing_fetch"} =>
          delays = 0 /\ DetailCalls = {}
    /\ pc = "detail_fetch" =>
          /\ delays >= 1
          /\ calls[Len(calls)] = DetailUrl(game_data[1].url)
    /\ \A i \in DetailCalls : i > 2

\* The second detail page of the run is at its third attempt, after two
\* backoff sleeps; two delay sleeps have been made in all.
C20_Witness ==
    /\ pc = "detail_fetch"
    /\ fetched = "pending"
    /\ attempts = <<FALSE, FALSE>>
    /\ waits = 2
    /\ Cardinality(DetailCalls) = 2
    /\ delays = 2

\* C28: no two detail-page fetch_page calls of a run are for the same
\* link number, so the run makes no more delay sleeps and records no more
\* enrichments than it has seen distinct link numbers.
C28_OneEnrichmentPerLink ==
    /\ \A i, j \in DetailCalls : i # j => calls[i].link # calls[j].link
    /\ delays <= Cardinality({seenLinks[i] : i \in DOMAIN seenLinks} \ {0})
    /\ \A l \in GameNumbers :
          Cardinality({x \in prices : x[1] = l}) <= 1

\* Three tables of game 1: the first did not parse, the second parsed and
\* its detail page gave no price, the third was skipped; one detail call.
C28_Witness ==
    /\ pc = "scraped"
    /\ seenLinks = <<1, 1, 1>>
    /\ prices = {<<1, 0>>}
    /\ unavailable = {}
    /\ Cardinality(DetailCalls) = 1

-----------------------------------------------------------------------------
(* Claims on the parser and the percentages, checked under SpecParse *)

\* The games the run holds: the one being enriched and the returned ones.
HeldGames ==
    {game_data[i] : i \in DOMAIN game_data} \cup {games[i] : i \in DOMAIN games}

\* The table of the scenario of two tiers.
ScenarioTable == Table(1, TRUE, 0, <<ScenarioTopRow, ScenarioLowRow>>)

\* C12: every tier of every game produced by parse_game_section has
\* value > 0 and total > 0; the game has no more tiers than the table has
\* rows whose parsed value and parsed total are both positive.
C12_TiersPositive ==
    \A g \in HeldGames :
        /\ \A i \in DOMAIN g.prize_tiers :
              g.prize_tiers[i].value > 0 /\ g.prize_tiers[i].total > 0
        /\ Len(g.prize_tiers)
              <= Cardinality(
                     {j \in DOMAIN parsed_table.rows :
                         /\ parse_prize_value(parsed_table.rows[j].value) > 0
                         /\ parse_number(parsed_table.rows[j].total) > 0})

\* A table of a good row and a row of total 0 gave a game of one tier.
C12_Witness ==
    /\ pc = "detail_delay"
    /\ Len(parsed_table.rows) = 2
    /\ parsed_table.rows[2].total = NumCell(0)
    /\ parse_prize_value(parsed_table.rows[2].value) > 0
    /\ Len(game_data[1].prize_tiers) = 1

\* C13: percent_remaining of every tier of a parsed game lies in [0, 100],
\* and percent_remaining of a tier of total 0 is 0.
C13_PercentWithinBounds ==
    /\ \A g \in HeldGames :
          \A i \in DOMAIN g.prize_tiers :
              /\ 0 <= percent_remaining(g.prize_tiers[i])
              /\ percent_remaining(g.prize_tiers[i]) <= 100
    /\ \A r \in {-1, 0, 3, 5} : percent_remaining(PrizeTier(100, 0, r)) = 0

\* C15: the table of rows (5000, 1000, 500) and (100, 50000, 10000) parses
\* to one game of these two tiers; enriched with price 5 it is the only
\* game returned, with top value 5000, top percent_remaining 50, bottom
\* percent_remaining 20 and differential 30, and each ranking returns
\* exactly that game with these numbers.
C15_Scenario ==
    LET g == GameData(1, 1, 0, <<PrizeTier(5000, 1000, 500),
                                 PrizeTier(100, 50000, 10000)>>)
        enriched == [g EXCEPT !.ticket_price = 5]
    IN parsed_table = ScenarioTable =>
          /\ pc \in {"detail_delay", "detail_fetch"} => game_data = <<g>>
          /\ games # <<>> =>
                /\ games = <<enriched>>
                /\ get_top_prize(games[1]).value = 5000
                /\ percent_remaining(get_top_prize(games[1])) = 50
                /\ percent_remaining(get_bottom_prize(games[1])) = 20
                /\ calculate_differential(games[1]) = <<20, 50, 30>>
                /\ pc \in {"ranked_differential", "ranked_top_prizes"}
                      => results = << <<enriched, 20, 50, 30>> >>

\* The scenario table was parsed, the price 5 was found and the game ranked.
C15_Witness ==
    /\ pc = "ranked_differential"
    /\ parsed_table = ScenarioTable
    /\ Len(results) = 1
    /\ results[1][1].ticket_price = 5
    /\ results[1][4] = 30

\* A row all of whose numeric cells are numbers.
AllCellsNumeric(row) == row.value.ok /\ row.total.ok /\ row.remaining.ok

\* A row that the parser is to accept: four cells, a '$' value cell, a
\* numeric value above 0 and a numeric total above 0.
ValidTierRow(row) ==
    /\ row.ncells >= 4
    /\ row.dollar
    /\ row.value.ok /\ row.value.n > 0
    /\ row.total.ok /\ row.total.n > 0

\* C21: a parsed game has no more tiers than its table has rows whose
\* value, total and remaining cells are all numbers: a row with a cell that
\* is not a number gives no tier.
C21_BadCellGivesNoTier ==
    \A g \in HeldGames :
        Len(g.prize_tiers)
            <= Cardinality({j \in DOMAIN parsed_table.rows :
                              AllCellsNumeric(parsed_table.rows[j])})

\* C22: every game held or ranked has at least one tier, and when the
\* table has no valid tier row no game is parsed, no delay is made and no
\* detail page is fetched.
C22_NoTiersNoGame ==
    /\ \A g \in HeldGames : g.prize_tiers # <<>>
    /\ \A i \in DOMAIN results : results[i][1].prize_tiers # <<>>
    /\ ( /\ parsed_table # NoTable
         /\ \A j \in DOMAIN parsed_table.rows :
               ~ValidTierRow(parsed_table.rows[j]) )
          => /\ HeldGames = {}
             /\ delays = 0
             /\ DetailCalls = {}
             /\ results = <<>>

\* A table of two rows, one without '$' and one of total 0, was visited
\* and the scan ended without a detail fetch.
C22_Witness ==
    /\ pc = "scraped"
    /\ parsed_table # NoTable
    /\ Len(parsed_table.rows) = 2
    /\ ~parsed_table.rows[1].dollar
    /\ parsed_table.rows[2].total = NumCell(0)
    /\ DetailCalls = {}

-----------------------------------------------------------------------------
(* A claim on games of one tier value, checked under SpecRank *)

\* All tiers of the game have the same value (a single tier among them).
OneTierValue(game) ==
    \A i, j \in DOMAIN game.prize_tiers :
        game.prize_tiers[i].value = game.prize_tiers[j].value

\* C25: in the differential ranking a game whose tiers all have one value
\* is present once, with bottom_pct = top_pct and differential 0, after
\* every result of positive differential and before every result of
\* negative differential.
C25_OneTierValueDifferentialZero ==
    pc = "ranked_differential" =>
        /\ \A k \in 1..Len(games) :
              OneTierValue(games[k]) => TimesRanked(games[k]) = 1
        /\ \A i \in 1..Len(results) :
              OneTierValue(results[i][1]) =>
                  /\ results[i][2] = results[i][3]
                  /\ results[i][4] = 0
                  /\ \A j \in 1..Len(results) :
                        /\ results[j][4] > 0 => j < i
                        /\ results[j][4] < 0 => i < j

\* A game of two tiers of value 100 with 75 and 25 percent left is ranked
\* second of three, between a positive and a negative differential.
C25_Witness ==
    /\ pc = "ranked_differential"
    /\ Len(results) = 3
    /\ results[1][4] > 0
    /\ results[2][1].prize_tiers = <<RankLowTier, PrizeTier(100, 4, 1)>>
    /\ results[2][4] = 0
    /\ results[3][4] < 0

-----------------------------------------------------------------------------
(* Image extraction of get_game_details_from_page (SpecDetail) *)

\* An img element: whether src starts with '/', with 'http' or with
\* neither; whether src has no 'scratch', has the word, or has the path
\* segment '/scratch-off/'; whether src has 'game'; whether alt has 'game'
\* or 'ticket'.
Images ==
    [kind : {"root", "http", "other"}, scratch : {"no", "word", "path"},
     game_src : BOOLEAN, alt_kw : BOOLEAN]

\* 'scratch' in src.lower() or 'game' in alt or 'ticket' in alt
preferred(img) == img.scratch # "no" \/ img.alt_kw

\* '/scratch-off/' in src or 'game' in src.lower()
fallback(img) == img.scratch = "path" \/ img.game_src

\* The image_url assigned from the i-th image: BASE_URL + src, src, or
\* nothing when src starts with neither '/' nor 'http'.
resolve(tags, i) ==
    IF tags[i].kind = "root" THEN <<[img |-> i, url |-> "BASE_URL + src"]>>
    ELSE IF tags[i].kind = "http" THEN <<[img |-> i, url |-> "src"]>>
    ELSE NoImageUrl

\* The image at which the first loop breaks, 0 when it runs to the end.
first_preferred(tags) ==
    IF \E i \in DOMAIN tags : preferred(tags[i])
    THEN CHOOSE i \in DOMAIN tags :
            preferred(tags[i]) /\ \A j \in 1..(i - 1) : ~preferred(tags[j])
    ELSE 0

\* The image at which the second loop breaks, 0 when it runs to the end.
first_fallback(tags) ==
    IF \E i \in DOMAIN tags : fallback(tags[i])
    THEN CHOOSE i \in DOMAIN tags :
            fallback(tags[i]) /\ \A j \in 1..(i - 1) : ~fallback(tags[j])
    ELSE 0

\* The two loops over img_tags; the second runs if not image_url.
extract_image_url(tags) ==
    LET first == IF first_preferred(tags) = 0 THEN NoImageUrl
                 ELSE resolve(tags, first_preferred(tags))
    IN IF first # NoImageUrl THEN first
       ELSE IF first_fallback(tags) = 0 THEN NoImageUrl
       ELSE resolve(tags, first_fallback(tags))

ImagePages == UNION {[1..n -> Images] : n \in 0..MaxImages}

\* The detail page has arrived and its price has been read.
InitDetail ==
    /\ pc = "detail_page"
    /\ games_in_claims = {}
    /\ processed_games = {}
    /\ games = <<>>
    /\ game_data = <<>>
    /\ seenLinks = <<>>
    /\ src = <<>>
    /\ attempts = <<TRUE>>
    /\ fetched = "text"
    /\ results = <<>>
    /\ today = 0
    /\ claims_page = <<>>
    /\ calls = <<>>
    /\ waits = 0
    /\ delays = 0
    /\ unavailable = {}
    /\ parsed_table = NoTable
    /\ image_gets = 0
    /\ response = "unset"
    /\ game_img = "unset"
    /\ slides = <<>>
    /\ all_tables = <<>>
    /\ prices = {}
    /\ img_tags = <<>>
    /\ image_url = NoImageUrl

\* soup.find_all('img') and the two loops; the function returns.
ImageExtracted ==
    /\ pc = "detail_page"
    /\ \E tags \in ImagePages :
          /\ img_tags' = tags
          /\ image_url' = extract_image_url(tags)
    /\ pc' = "details_returned"
    /\ UNCHANGED <<games_in_claims, processed_games, games, game_data,
                   seenLinks, src, attempts, fetched, results, today,
                   claims_page>>
    /\ UNCHANGED <<calls, waits, delays, unavailable, parsed_table,
                   image_gets, response, game_img, slides>>
    /\ UNCHANGED <<all_tables, prices>>

NextDetail == ImageExtracted

SpecDetail == InitDetail /\ [][NextDetail]_vars

\* C26: when some image with a source starting with '/' or 'http' matches
\* the preferred keywords, the returned image_url is the resolved source
\* of an image that matches them; when any image matches them, a returned
\* image_url is not that of an image matching the fallback test alone; a
\* returned image_url is BASE_URL + a root-relative src, or an http src.
C26_PreferredBeforeFallback ==
    pc = "details_returned" =>
        /\ (\E i \in DOMAIN img_tags :
                preferred(img_tags[i]) /\ img_tags[i].kind # "other")
              => /\ image_url # NoImageUrl
                 /\ preferred(img_tags[image_url[1].img])
        /\ ( /\ \E i \in DOMAIN img_tags : preferred(img_tags[i])
             /\ image_url # NoImageUrl )
              => preferred(img_tags[image_url[1].img])
        /\ image_url # NoImageUrl =>
              /\ image_url = resolve(img_tags, image_url[1].img)
              /\ img_tags[image_url[1].img].kind # "other"

-----------------------------------------------------------------------------
(* generate_all_content of the countdown reel (SpecReel) *)

\* Ticket prices on either side of 10.
ReelPrices == {5, 10, 20}

\* A ranked result list: game i of the list has link i, one tier, and a
\* price of ReelPrices; every differential is 0, so the list is sorted.
ReelResults ==
    { [i \in 1..n |-> ResultOf(GameData(i, i, p[i], <<RankLowTier>>))] :
        n \in 1..MaxReelGames, p \in [1..MaxReelGames -> ReelPrices] }

\* lst[:3]
FirstThree(lst) == SubSeq(lst, 1, IF Len(lst) < 3 THEN Len(lst) ELSE 3)

\* The slides of one category: enumerate(reversed(category)) with
\* display_rank = 3 - i and is_blurred = (display_rank == 1), i from 0.
game_slides(category, label) ==
    [n \in 1..Len(category) |->
        [kind |-> "game", game |-> Reverse(category)[n][1],
         display_rank |-> 3 - (n - 1), is_blurred |-> (3 - (n - 1) = 1),
         category |-> label]]

\* A slide that shows no game.
plain_slide(kind) ==
    [kind |-> kind, game |-> <<>>, display_rank |-> 0, is_blurred |-> FALSE,
     category |-> ""]

high_price(rs) == FirstThree(SelectSeq(rs, LAMBDA x : x[1].ticket_price >= 10))

low_price(rs) == FirstThree(SelectSeq(rs, LAMBDA x : x[1].ticket_price < 10))

\* The slides list: title, $10+ games, divider, under-$10 games.
generate_all_content(rs) ==
    <<plain_slide("title")>> \o game_slides(high_price(rs), "$10+")
        \o <<plain_slide("divider")>>
        \o game_slides(low_price(rs), "UNDER $10")

\* analyze_and_rank_games has returned a non-empty list to main.
InitReel ==
    /\ pc = "ranked_differential"
    /\ games_in_claims = {}
    /\ processed_games = {}
    /\ games = <<>>
    /\ game_data = <<>>
    /\ seenLinks = <<>>
    /\ src = <<>>
    /\ attempts = <<>>
    /\ fetched = "idle"
    /\ results \in ReelResults
    /\ today = 0
    /\ claims_page = <<>>
    /\ calls = <<>>
    /\ waits = 0
    /\ delays = 0
    /\ unavailable = {}
    /\ parsed_table = NoTable
    /\ image_gets = 0
    /\ response = "unset"
    /\ game_img = "unset"
    /\ slides = <<>>
    /\ all_tables = <<>>
    /\ prices = {}
    /\ img_tags = <<>>
    /\ image_url = NoImageUrl

\* generator.generate_all_content(results)
GenerateAllContent ==
    /\ pc = "ranked_differential"
    /\ slides' = generate_all_content(results)
    /\ pc' = "rendered"
    /\ UNCHANGED <<games_in_claims, processed_games, games, game_data,
                   seenLinks, src, attempts, fetched, results, today,
                   claims_page>>
    /\ UNCHANGED <<calls, waits, delays, unavailable, parsed_table,
                   image_gets, response, game_img>>
    /\ UNCHANGED <<all_tables, prices, img_tags, image_url>>

NextReel == GenerateAllContent

SpecReel == InitReel /\ [][NextReel]_vars

\* The game slides of a category, in the order they were appended.
SlidesOf(label) == SelectSeq(slides, LAMBDA x : x.category = label)

\* The results of a category, best first, whatever their number.
Qualifying(label) ==
    IF label = "$10+"
    THEN SelectSeq(results, LAMBDA x : x[1].ticket_price >= 10)
    ELSE SelectSeq(results, LAMBDA x : x[1].ticket_price < 10)

\* C27: in each price category, with m = min(3, qualifying games) game
\* slides, the k-th best game is drawn with display rank k for every
\* k <= m, the slide of the best game is blurred, no other is, and it is
\* the last game slide of the category.
C27_CountdownRanks ==
    pc = "rendered" =>
        \A label \in {"$10+", "UNDER $10"} :
            LET q == Qualifying(label)
                sl == SlidesOf(label)
            IN /\ Len(sl) = (IF Len(q) < 3 THEN Len(q) ELSE 3)
               /\ \A k \in 1..Len(sl) :
                     \E n \in 1..Len(sl) :
                         /\ sl[n].game = q[k][1]
                         /\ sl[n].display_rank = k
                         /\ sl[n].is_blurred = (k = 1)
               /\ sl # <<>> => sl[Len(sl)].game = q[1][1]

-----------------------------------------------------------------------------
(* The table loop over a listing fixed beforehand (SpecScan) *)

ScanLinks == {1, 2}

\* A table without a detail-page link, and for each link a table without a
\* tier row and a table of one tier.
ScanTables ==
    {Table(0, FALSE, 0, <<>>)}
        \cup {Table(l, TRUE, 0, rows) :
                  l \in ScanLinks, rows \in {<<ArtifactRow>>, <<LowRow>>}}

ScanListings == UNION {[1..n -> ScanTables] : n \in 0..MaxScanTables}

\* Both listings have arrived at the first attempt; the tables of the
\* prizes-remaining listing are all_tables; the claims set is empty or {2}.
InitScan ==
    /\ pc = "scan"
    /\ games_in_claims \in {{}, {2}}
    /\ processed_games = {}
    /\ games = <<>>
    /\ game_data = <<>>
    /\ seenLinks = <<>>
    /\ src = <<>>
    /\ attempts = <<TRUE>>
    /\ fetched = "text"
    /\ results = <<>>
    /\ today = 0
    /\ claims_page = <<>>
    /\ calls = <<GAMES_ENDING_URL, PRIZES_URL>>
    /\ waits = 0
    /\ delays = 0
    /\ unavailable = {}
    /\ parsed_table = NoTable
    /\ image_gets = 0
    /\ response = "unset"
    /\ game_img = "unset"
    /\ slides = <<>>
    /\ all_tables \in ScanListings
    /\ prices = {}
    /\ img_tags = <<>>
    /\ image_url = NoImageUrl

\* A faulty variant: a table that does not parse ends the loop.
VisitTable_stopping_at_failure ==
    /\ pc = "scan"
    /\ Len(seenLinks) < Len(all_tables)
    /\ LET t == all_tables[Len(seenLinks) + 1]
       IN /\ seenLinks' = Append(seenLinks, t.link)
          /\ IF t.link = 0 \/ t.link \in processed_games
             THEN UNCHANGED <<pc, game_data, processed_games>>
             ELSE IF t.link \in games_in_claims
             THEN /\ processed_games' = processed_games \cup {t.link}
                  /\ UNCHANGED <<pc, game_data>>
             ELSE IF parse_game_section(t) = <<>>
             THEN /\ pc' = "scraped"
                  /\ UNCHANGED <<game_data, processed_games>>
             ELSE /\ game_data' = parse_game_section(t)
                  /\ processed_games' = processed_games \cup {t.link}
                  /\ pc' = "detail_delay"
    /\ UNCHANGED <<games_in_claims, games, src, attempts, fetched, results,
                   today, claims_page>>
    /\ UNCHANGED <<calls, waits, delays, unavailable, parsed_table,
                   image_gets, response, game_img, slides>>
    /\ UNCHANGED <<all_tables, prices, img_tags, image_url>>

\* A faulty variant: a table that does not parse marks its link number.
VisitTable_marking_unparsed ==
    /\ pc = "scan"
    /\ Len(seenLinks) < Len(all_tables)
    /\ LET t == all_tables[Len(seenLinks) + 1]
       IN /\ seenLinks' = Append(seenLinks, t.link)
          /\ IF t.link = 0 \/ t.link \in processed_games
             THEN UNCHANGED <<pc, game_data, processed_games>>
             ELSE IF t.link \in games_in_claims
             THEN /\ processed_games' = processed_games \cup {t.link}
                  /\ UNCHANGED <<pc, game_data>>
             ELSE IF parse_game_section(t) = <<>>
             THEN /\ processed_games' = processed_games \cup {t.link}
                  /\ UNCHANGED <<pc, game_data>>
             ELSE /\ game_data' = parse_game_section(t)
                  /\ processed_games' = processed_games \cup {t.link}
                  /\ pc' = "detail_delay"
    /\ UNCHANGED <<games_in_claims, games, src, attempts, fetched, results,
                   today, claims_page>>
    /\ UNCHANGED <<calls, waits, delays, unavailable, parsed_table,
                   image_gets, response, game_img, slides>>
    /\ UNCHANGED <<all_tables, prices, img_tags, image_url>>

\* One iteration of 'for table in all_tables'.
VisitTable ==
    /\ pc = "scan"
    /\ Len(seenLinks) < Len(all_tables)
    /\ LET t == all_tables[Len(seenLinks) + 1]
       IN /\ seenLinks' = Append(seenLinks, t.link)
          /\ IF t.link = 0 \/ t.link \in processed_games
             THEN UNCHANGED <<pc, game_data, processed_games>>
             ELSE IF t.link \in games_in_claims
             THEN /\ processed_games' = processed_games \cup {t.link}
                  /\ UNCHANGED <<pc, game_data>>
             ELSE IF parse_game_section(t) = <<>>
             THEN UNCHANGED <<pc, game_data, processed_games>>
             ELSE /\ game_data' = parse_game_section(t)
                  /\ processed_games' = processed_games \cup {t.link}
                  /\ pc' = "detail_delay"
    /\ UNCHANGED <<games_in_claims, games, src, attempts, fetched, results,
                   today, claims_page>>
    /\ UNCHANGED <<calls, waits, delays, unavailable, parsed_table,
                   image_gets, response, game_img, slides>>
    /\ UNCHANGED <<all_tables, prices, img_tags, image_url>>

\* The loop has run over all tables: return games.
LoopEnd ==
    /\ pc = "scan"
    /\ Len(seenLinks) = Len(all_tables)
    /\ pc' = "scraped"
    /\ UNCHANGED <<games_in_claims, processed_games, games, game_data,
                   seenLinks, src, attempts, fetched, results, today,
                   claims_page>>
    /\ UNCHANGED <<calls, waits, delays, unavailable, parsed_table,
                   image_gets, response, game_img, slides>>
    /\ UNCHANGED <<all_tables, prices, img_tags, image_url>>

NextScan ==
    \/ VisitTable
    \/ LoopEnd
    \/ DetailDelay
    \/ GetOk
    \/ GetFail
    \/ Backoff
    \/ DetailUnavailable
    \/ DetailFetched
    \/ RankDifferential
    \/ RankTopPrizes

SpecScan == InitScan /\ [][NextScan]_vars

\* The first of the first n tables that has link l and parses, 0 if none.
FirstParsing(l, n) ==
    LET ps == {i \in 1..n : /\ all_tables[i].link = l
                            /\ parse_game_section(all_tables[i]) # <<>>}
    IN IF ps = {} THEN 0 ELSE CHOOSE i \in ps : \A j \in ps : i <= j

\* The scan is between two tables, or over.
Quiet == pc \in {"scan", "scraped", "ranked_differential", "ranked_top_prizes"}

\* The scan is over.
Returned == pc \in {"scraped", "ranked_differential", "ranked_top_prizes"}

\* C23: the tables are visited in document order and the loop ends only
\* after the last one; a visited table that parses, is the first such of
\* its link number, is not in the claims set and whose detail page gave a
\* price is the source of a game of the list, whatever tables before it
\* failed to parse; the games are in the order of their tables.
C23_ParseFailureDoesNotAbort ==
    /\ Len(seenLinks) <= Len(all_tables)
    /\ \A i \in DOMAIN seenLinks : seenLinks[i] = all_tables[i].link
    /\ Returned => Len(seenLinks) = Len(all_tables)
    /\ Quiet =>
          \A i \in DOMAIN seenLinks :
              ( /\ all_tables[i].link # 0
                /\ all_tables[i].link \notin games_in_claims
                /\ i = FirstParsing(all_tables[i].link, Len(seenLinks))
                /\ \E x \in prices : x[1] = all_tables[i].link /\ x[2] > 0 )
                  => \E k \in DOMAIN games :
                        /\ src[k] = i
                        /\ games[k].url = all_tables[i].link
    /\ \A k \in 1..(Len(src) - 1) : src[k] < src[k + 1]

\* The first table, of game 1, did not parse; the second, of game 2, did,
\* and game 2 is in the returned list.
C23_Witness ==
    /\ pc = "scraped"
    /\ Len(all_tables) = 3
    /\ all_tables[1] = Table(1, TRUE, 0, <<ArtifactRow>>)
    /\ all_tables[2].link = 2
    /\ Len(games) = 1
    /\ games[1].url = 2

\* C24: when the scan is over, the link numbers enriched are those with a
\* table that parses and outside the claims set, whatever the outcome of
\* any enrichment; a game is in the list exactly when its own enrichment
\* gave a price; a detail page that could not be fetched counts as price
\* 0; the games are in the order of the first parsing tables of their
\* links.
C24_DetailFailureRemovesOneGame ==
    Returned =>
        /\ {x[1] : x \in prices}
              = {l \in ScanLinks : /\ l \notin games_in_claims
                                   /\ FirstParsing(l, Len(all_tables)) # 0}
        /\ {games[k].url : k \in DOMAIN games}
              = {x[1] : x \in {y \in prices : y[2] > 0}}
        /\ \A l \in ScanLinks :
              DetailUrl(l) \in unavailable => <<l, 0>> \in prices
        /\ \A k \in DOMAIN games :
              \A m \in DOMAIN games :
                  k < m => FirstParsing(games[k].url, Len(all_tables))
                             < FirstParsing(games[m].url, Len(all_tables))
        /\ \A k, m \in DOMAIN games : games[k].url = games[m].url => k = m

\* The detail page of game 1 could not be fetched; game 2, whose table
\* comes later, is the returned list.
C24_Witness ==
    /\ pc = "scraped"
    /\ DetailUrl(1) \in unavailable
    /\ calls = <<GAMES_ENDING_URL, PRIZES_URL, DetailUrl(1), DetailUrl(2)>>
    /\ Len(games) = 1
    /\ games[1].url = 2

\* C29: at every point of the scan, processed_games holds exactly the
\* non-zero link numbers of the visited tables that are in the claims set
\* or that parse.
C29_ProcessedSet ==
    processed_games
        = {all_tables[i].link :
              i \in {j \in DOMAIN seenLinks :
                        /\ all_tables[j].link # 0
                        /\ \/ all_tables[j].link \in games_in_claims
                           \/ parse_game_section(all_tables[j]) # <<>>}}

\* A table of game 1 did not parse and left the set empty; the next table
\* of game 1 parsed, was marked and is being enriched; a table of game 2,
\* in its claims period, is still to come.
C29_Witness ==
    /\ pc = "detail_fetch"
    /\ games_in_claims = {2}
    /\ Len(all_tables) = 3
    /\ all_tables[1] = Table(1, TRUE, 0, <<ArtifactRow>>)
    /\ all_tables[2] = Table(1, TRUE, 0, <<LowRow>>)
    /\ all_tables[3].link = 2
    /\ seenLinks = <<1, 1>>
    /\ processed_games = {1}

-----------------------------------------------------------------------------
(* A whole run over a listing fixed beforehand (SpecRun) *)

RunListings == UNION {[1..n -> ScanTables] : n \in 0..MaxRunTables}

\* The games-ending listing of a run: no row, or one row that puts game 2
\* in its claims period at tick 1 of day 0.
RunClaimsPages ==
    { <<>>,
      <<[ncells |-> 5, game_num |-> 2, end_date |-> DateCell(-1),
         claim_date |-> DateCell(5)]>> }

\* Nothing has run; the rows the games-ending listing will show are
\* claims_page, the tables the prizes-remaining listing will show are
\* all_tables, and the clock will read today.
InitRun ==
    /\ pc = "start"
    /\ games_in_claims = {}
    /\ processed_games = {}
    /\ games = <<>>
    /\ game_data = <<>>
    /\ seenLinks = <<>>
    /\ src = <<>>
    /\ attempts = <<>>
    /\ fetched = "idle"
    /\ results = <<>>
    /\ today = 1
    /\ claims_page \in RunClaimsPages
    /\ calls = <<>>
    /\ waits = 0
    /\ delays = 0
    /\ unavailable = {}
    /\ parsed_table = NoTable
    /\ image_gets = 0
    /\ response = "unset"
    /\ game_img = "unset"
    /\ slides = <<>>
    /\ all_tables \in RunListings
    /\ prices = {}
    /\ img_tags = <<>>
    /\ image_url = NoImageUrl

\* The games-ending listing arrived: build the set from its rows, then
\* fetch the prizes-remaining listing.
RunClaimsFetched ==
    /\ pc = "claims_fetch"
    /\ fetched = "text"
    /\ games_in_claims' = get_games_in_claims_period(claims_page, today)
    /\ pc' = "listing_fetch"
    /\ FetchStart(PRIZES_URL)
    /\ UNCHANGED <<processed_games, games, game_data, seenLinks, src, results,
                   today, claims_page>>
    /\ UNCHANGED <<delays, unavailable, parsed_table,
                   image_gets, response, game_img, slides>>
    /\ UNCHANGED <<all_tables, prices, img_tags, image_url>>

NextRun ==
    \/ BeginRun
    \/ GetOk
    \/ GetFail
    \/ Backoff
    \/ RunClaimsFetched
    \/ ClaimsUnavailable
    \/ ListingUnavailable
    \/ ListingFetched
    \/ VisitTable
    \/ LoopEnd
    \/ DetailDelay
    \/ DetailUnavailable
    \/ DetailFetched
    \/ RankDifferential
    \/ RankTopPrizes

\* The steps of a run but for the ranking by differential, which can be
\* taken exactly where the ranking by top prizes can.
RunSteps ==
    \/ BeginRun
    \/ GetOk
    \/ GetFail
    \/ Backoff
    \/ RunClaimsFetched
    \/ ClaimsUnavailable
    \/ ListingUnavailable
    \/ ListingFetched
    \/ VisitTable
    \/ LoopEnd
    \/ DetailDelay
    \/ DetailUnavailable
    \/ DetailFetched
    \/ RankTopPrizes

\* session.get has timeout=30 and every sleep is finite: a run that can
\* take a step takes one.
SpecRun == InitRun /\ [][NextRun]_vars /\ WF_vars(RunSteps)

\* The run is over: a ranking has been returned.
Terminated == pc \in {"ranked_differential", "ranked_top_prizes"}

\* C30: every run ends with a ranking returned; a GET attempt is made only
\* inside a fetch_page call and adds one to the attempts of that call,
\* which never exceed 3; there are at most 2 + T calls for a listing of T
\* tables, no two of them for the same page. Hence at most 3 x (2 + T)
\* GET attempts, at most 3 for a page.
C30_RunTerminates ==
    /\ [](/\ Len(attempts) <= 3
          /\ Len(calls) <= 2 + Len(all_tables)
          /\ \A i, j \in DOMAIN calls : calls[i] = calls[j] => i = j)
    /\ [][Len(attempts') > Len(attempts)
            => /\ Len(attempts') = Len(attempts) + 1
               /\ calls' = calls
               /\ pc \in {"claims_fetch", "listing_fetch", "detail_fetch"}
               /\ fetched = "pending"]_vars
    /\ <>Terminated

\* A run of 12 GET attempts for 2 tables: the games-ending listing and
\* both detail pages failed 3 times, the prizes-remaining listing came at
\* the third attempt (both sleeps of that call were made before the scan
\* began).
C30_Witness ==
    /\ Terminated
    /\ Len(all_tables) = 2
    /\ Len(calls) = 4
    /\ unavailable = {GAMES_ENDING_URL, DetailUrl(1), DetailUrl(2)}
    /\ Len(attempts) = 3

=============================================================================
